---- MODULE Spec2Model ----
(***************************************************************************)
(* pghoard content encryption (pghoard/encryptor.py): the Encryptor and    *)
(* the Decryptor as state machines over byte sequences.                    *)
(*                                                                         *)
(* Bytes are integers 0..255, byte strings are sequences.  The library     *)
(* primitives are modelled by their contracts: AES-CTR is a position       *)
(* dependent keystream XORed onto the data, HMAC-SHA256 is a keyed 32-byte *)
(* digest of everything fed to it (no two inputs of the model collide),    *)
(* RSA-OAEP is a keyed injection of the message space whose decryption is  *)
(* its inverse and fails on every other input.                             *)
(***************************************************************************)
EXTENDS Integers, Sequences, FiniteSets, TLC

(* ------------------------------ bounds -------------------------------- *)

\* length of the plaintext source offered to the Encryptor
MaxPlain == 33
\* largest chunk handed to Encryptor.update besides "all that is left"
MaxEncChunk == 2
\* largest chunk handed to Decryptor.update besides "all that is left"
MaxDecChunk == 2
\* byte length of the RSA modulus, i.e. of a wrapped key
RsaModulusLen == 3
\* how many times one Encryptor instance may be (re)initialised in a run
MaxStreams == 2

\* contents of the plaintext source
PlainSeeds == {0, 1}
\* outcomes of os.urandom
RandomSeeds == {1, 2}
\* the RSA key pair in use
KeyIds == {1}
\* byte differences applied by a tampering channel
TamperDeltas == {128}
\* largest size passed to DecryptorFile.read besides "everything"
MaxReadSize == 3
\* length of the longest plaintext whose stream is offered to a DecryptorFile
MaxFilePlain == 8

(* --------------------------- program constants ------------------------ *)

FILEMAGIC == <<112, 103, 104, 111, 97, 49>>
KEYLEN == 16
NONCELEN == 16
AUTHKEYLEN == 32
PLAINKEYLEN == 64
TAGLEN == 32
LENFIELD == 2
IO_BLOCK_SIZE == 1048576

(* ------------------------------ helpers ------------------------------- *)

Min(a, b) == IF a < b THEN a ELSE b

\* Python slices s[a:b], s[a:], s[-n:], s[:-n] (0-based, clamped)
Slice(s, a, b) == SubSeq(s, a + 1, Min(b, Len(s)))
SliceFrom(s, a) == SubSeq(s, a + 1, Len(s))
LastN(s, n) == IF Len(s) <= n THEN s ELSE SubSeq(s, Len(s) - n + 1, Len(s))
AllButLastN(s, n) == IF Len(s) <= n THEN <<>> ELSE SubSeq(s, 1, Len(s) - n)

RECURSIVE XorBits(_, _, _)
XorBits(a, b, n) ==
    IF n = 0 THEN 0
    ELSE (((a % 2) + (b % 2)) % 2) + 2 * XorBits(a \div 2, b \div 2, n - 1)

XorTable == [a \in 0..255 |-> [b \in 0..255 |-> XorBits(a, b, 8)]]

\* a ^ b on bytes
Xor(a, b) == XorTable[a][b]

\* mutant: the length packed little-endian
PackHLittleEndian(n) == <<n % 256, (n \div 256) % 256>>

\* struct.pack(">H", n) and struct.unpack(">H", b)[0]
PackH(n) == <<(n \div 256) % 256, n % 256>>
UnpackH(b) == 256 * b[1] + b[2]

(* ------------------------- library primitives ------------------------- *)

None == [tag |-> "None"]

\* os.urandom(n): outcome r of the random source
Urandom(n, r, salt) == [i \in 1..n |-> (r * 41 + salt * 67 + i * 5) % 256]

\* AES-CTR keystream byte at stream offset i (0-based)
Keystream(key, nonce, i) ==
    (key[(i % KEYLEN) + 1] * 3 + nonce[((i \div KEYLEN + i) % NONCELEN) + 1] + i * 13) % 256

\* Cipher(AES(key), CTR(nonce)).encryptor() / .decryptor()
NewCipher(key, nonce) == [tag |-> "ctr", key |-> key, nonce |-> nonce, pos |-> 0]

\* mutant: the counter does not advance between calls
CipherStuck(c, n) == c

CipherAdvance(c, n) == [c EXCEPT !.pos = c.pos + n]

CipherXor(c, data) ==
    [i \in 1..Len(data) |-> Xor(data[i], Keystream(c.key, c.nonce, c.pos + i - 1))]

\* cipher.update(data): counter mode is the same transform in both directions
CipherUpdate(c, data) ==
    [cipher |-> CipherAdvance(c, Len(data)), out |-> CipherXor(c, data)]

\* cipher.finalize(): counter mode has nothing to flush
CipherFinalize(c) == <<>>

\* HMAC(auth_key, SHA256())
NewHmac(auth_key) == [tag |-> "hmac", key |-> auth_key, data |-> <<>>, final |-> FALSE]

HmacUpdate(h, data) == [h EXCEPT !.data = h.data \o data]

RECURSIVE HmacFold(_, _)
HmacFold(data, i) ==
    IF i > Len(data) THEN 0
    ELSE (data[i] * (2 * ((i - 1) \div (TAGLEN - 1)) + 1)
            + HmacFold(data, i + TAGLEN - 1)) % 256

\* the 32-byte digest: a keyed digest of the length and of every byte
HmacDigest(key, data) ==
    [j \in 1..TAGLEN |->
        IF j = 1 THEN (key[1] + Len(data)) % 256
        ELSE (key[j] + HmacFold(data, j - 1)) % 256]

HmacFinalize(h) == HmacDigest(h.key, h.data)

\* RSA-OAEP: the message space of the model
Secret(r) ==
    Urandom(KEYLEN, r, 0) \o Urandom(NONCELEN, r, 1) \o Urandom(AUTHKEYLEN, r, 2)

ShortMessage == Urandom(PLAINKEYLEN - 1, 3, 0)

Messages == {Secret(r) : r \in RandomSeeds} \cup {ShortMessage}

\* rsa_public_key.encrypt(m, pad): RsaModulusLen bytes
RsaEncrypt(k, m) ==
    [i \in 1..RsaModulusLen |->
        IF i = 1 THEN (k * 53 + Len(m)) % 256
        ELSE m[((i - 2) % Len(m)) + 1]]

\* rsa_private_key.decrypt(c, pad): the inverse of RsaEncrypt, failing elsewhere
RsaDecrypt(k, c) ==
    IF \E m \in Messages : RsaEncrypt(k, m) = c
    THEN [ok |-> TRUE, plain |-> CHOOSE m \in Messages : RsaEncrypt(k, m) = c]
    ELSE [ok |-> FALSE, plain |-> <<>>]

(* ------------------------------ Encryptor ----------------------------- *)

\* key + nonce + auth_key as drawn by Encryptor.update
EncryptorSecret(r) == Secret(r)

\* FILEMAGIC + struct.pack(">H", len(cipherkey)) + cipherkey
EncryptorHeader(cipherkey) == FILEMAGIC \o PackH(Len(cipherkey)) \o cipherkey

\* Encryptor.update(data); r is the outcome of os.urandom when it is drawn
EncryptorUpdate(self, data, r) ==
    LET fresh == self.cipher.tag = "None"
        secret == EncryptorSecret(r)
        key == Slice(secret, 0, KEYLEN)
        nonce == Slice(secret, KEYLEN, KEYLEN + NONCELEN)
        auth_key == Slice(secret, KEYLEN + NONCELEN, PLAINKEYLEN)
        cipher == IF fresh THEN NewCipher(key, nonce) ELSE self.cipher
        authenticator == IF fresh THEN NewHmac(auth_key) ELSE self.authenticator
        cipherkey == RsaEncrypt(self.rsa_public_key, secret)
        ret0 == IF fresh THEN EncryptorHeader(cipherkey) ELSE <<>>
        cur == CipherUpdate(cipher, data)
    IN  [cipher |-> cur.cipher,
         authenticator |-> HmacUpdate(authenticator, cur.out),
         ret |-> ret0 \o cur.out,
         err |-> "",
         fresh |-> fresh]

\* mutant: finalize without the state check
EncryptorFinalizeLenient(self) ==
    IF self.cipher.tag = "None"
    THEN [cipher |-> None, authenticator |-> None, ret |-> <<>>, err |-> ""]
    ELSE LET ret == CipherFinalize(self.cipher)
             auth == HmacUpdate(self.authenticator, ret)
         IN  [cipher |-> None, authenticator |-> None,
              ret |-> ret \o HmacFinalize(auth), err |-> ""]

\* Encryptor.finalize()
EncryptorFinalize(self) ==
    IF self.cipher.tag = "None"
    THEN [cipher |-> self.cipher, authenticator |-> self.authenticator,
          ret |-> <<>>, err |-> "Invalid state"]
    ELSE LET ret == CipherFinalize(self.cipher)
             auth == HmacUpdate(self.authenticator, ret)
         IN  [cipher |-> None, authenticator |-> None,
              ret |-> ret \o HmacFinalize(auth), err |-> ""]

(* ------------------------------ Decryptor ----------------------------- *)

\* mutant: one byte too many is taken as confirmed ciphertext
ConfirmedOffByOne(buf) == AllButLastN(buf, TAGLEN - 1)

\* mutant: one byte too few is taken as confirmed ciphertext
ConfirmedShort(buf) == AllButLastN(buf, TAGLEN + 1)

\* self.buf[:-32]: the bytes handed to the authenticator and to the cipher
Confirmed(buf) == AllButLastN(buf, TAGLEN)

\* mutant: one byte too few is kept back
RetainedOffByOne(buf) == LastN(buf, TAGLEN - 1)

\* self.buf[-32:]: the bytes kept back as candidates for the tag
Retained(buf) == LastN(buf, TAGLEN)

\* the streaming part of Decryptor.update, from "if len(self.buf) < 32"
DecryptorStream(cipher, authenticator, buf) ==
    IF Len(buf) < TAGLEN
    THEN [cipher |-> cipher, authenticator |-> authenticator, buf |-> buf,
          ret |-> <<>>, err |-> "", fed |-> <<>>]
    ELSE IF authenticator.final
    THEN [cipher |-> cipher, authenticator |-> authenticator, buf |-> buf,
          ret |-> <<>>, err |-> "AlreadyFinalized", fed |-> <<>>]
    ELSE [cipher |-> CipherAdvance(cipher, Len(Confirmed(buf))),
          authenticator |-> HmacUpdate(authenticator, Confirmed(buf)),
          buf |-> Retained(buf),
          ret |-> CipherXor(cipher, Confirmed(buf)),
          err |-> "", fed |-> Confirmed(buf)]

Raise(self, buf, err) ==
    [cipher |-> self.cipher, authenticator |-> self.authenticator, buf |-> buf,
     ret |-> <<>>, err |-> err, fed |-> <<>>]

\* the header part of Decryptor.update, taken while self.cipher is None
DecryptorHeader(self, buf) ==
    IF Len(buf) < Len(FILEMAGIC) + LENFIELD THEN Raise(self, buf, "")
    ELSE IF Slice(buf, 0, Len(FILEMAGIC)) # FILEMAGIC
    THEN Raise(self, buf, "Invalid magic bytes")
    ELSE LET hdr == Len(FILEMAGIC) + LENFIELD
             cipherkeylen == UnpackH(Slice(buf, Len(FILEMAGIC), hdr))
             dec == RsaDecrypt(self.rsa_private_key, Slice(buf, hdr, hdr + cipherkeylen))
             plainkey == dec.plain
             key == Slice(plainkey, 0, KEYLEN)
             nonce == Slice(plainkey, KEYLEN, KEYLEN + NONCELEN)
             auth_key == Slice(plainkey, KEYLEN + NONCELEN, PLAINKEYLEN)
         IN  IF Len(buf) < hdr + cipherkeylen THEN Raise(self, buf, "")
             ELSE IF ~dec.ok THEN Raise(self, buf, "Decrypting key data failed")
             ELSE IF Len(plainkey) # PLAINKEYLEN
             THEN Raise(self, buf, "Integrity check failed")
             ELSE DecryptorStream(NewCipher(key, nonce), NewHmac(auth_key),
                                  SliceFrom(buf, hdr + cipherkeylen))

\* mutant: the header is looked for in the new chunk alone
DecryptorUpdateNoAccumulate(self, data) ==
    IF self.cipher.tag = "None"
    THEN DecryptorHeader(self, data)
    ELSE DecryptorStream(self.cipher, self.authenticator, self.buf \o data)

\* Decryptor.update(data)
DecryptorUpdate(self, data) ==
    IF self.cipher.tag = "None"
    THEN DecryptorHeader(self, self.buf \o data)
    ELSE DecryptorStream(self.cipher, self.authenticator, self.buf \o data)

\* mutant: only the lengths are compared
TagMismatchLength(buf, tag) == Len(buf) # Len(tag)

\* mutant: the buffer is compared with as much of the tag as it covers
TagMismatchPrefix(buf, tag) == buf # SubSeq(tag, 1, Len(buf))

\* self.buf != self.authenticator.finalize()
TagMismatch(buf, tag) == buf # tag

\* Decryptor.finalize()
DecryptorFinalize(self) ==
    IF self.cipher.tag = "None" THEN Raise(self, self.buf, "Invalid state")
    ELSE IF self.authenticator.final THEN Raise(self, self.buf, "AlreadyFinalized")
    ELSE IF TagMismatch(self.buf, HmacFinalize(self.authenticator))
    THEN [cipher |-> self.cipher,
          authenticator |-> [self.authenticator EXCEPT !.final = TRUE],
          buf |-> self.buf, ret |-> <<>>, err |-> "Integrity check failed", fed |-> <<>>]
    ELSE [cipher |-> None, authenticator |-> None, buf |-> <<>>,
          ret |-> CipherFinalize(self.cipher), err |-> "", fed |-> <<>>]

(* ------------------------------- state -------------------------------- *)

VARIABLES
    phase,               \* harness: "encrypt" while the stream is produced, then "decrypt"
    plain,               \* harness: the plaintext source
    ppos,                \* harness: bytes of plain already handed to Encryptor.update
    enc_rsa_public_key,  \* Encryptor.rsa_public_key
    enc_cipher,          \* Encryptor.cipher
    enc_authenticator,   \* Encryptor.authenticator
    enc_rand,            \* history: the os.urandom outcome of the current stream
    enc_split,           \* history: the current stream took more than one update call
    enc_in,              \* history: plaintext fed to the current stream
    enc_out,             \* history: concatenated output of the current stream
    enc_last,            \* history: the last Encryptor call and its outcome
    enc_inits,           \* history: number of uninitialized -> active transitions
    enc_finalized,       \* history: finalize has returned on this instance
    wire,                \* harness: the byte stream offered to the Decryptor
    tampered,            \* harness: 0, or the position of the first byte changed in transit
    wpos,                \* harness: bytes of wire already handed to Decryptor.update
    dec_rsa_private_key, \* Decryptor.rsa_private_key
    dec_cipher,          \* Decryptor.cipher
    dec_authenticator,   \* Decryptor.authenticator
    dec_buf,             \* Decryptor.buf
    dec_out,             \* history: concatenated output of all Decryptor calls
    dec_cipher_in,       \* history: concatenated input of the Decryptor's cipher
    dec_last,            \* history: the last Decryptor call and its outcome
    dec_finalize_calls,  \* history: number of Decryptor.finalize calls
    dec_split,           \* history: more than one Decryptor.update call has been made
    dec_probed,          \* harness: a call has been made after the first finalize call
    dec_finalized,       \* history: Decryptor.finalize has returned on this instance
    dec_rejected,        \* history: Decryptor.update has raised on the header
    src_short,           \* harness: the most bytes the upstream returns per read, by position
    buffer,              \* DecryptorFile.buffer
    buffer_offset,       \* DecryptorFile.buffer_offset
    state,               \* DecryptorFile.state
    decryptor,           \* DecryptorFile.decryptor: the Decryptor above, or None
    source_fp,           \* DecryptorFile.source_fp: the wire read at wpos, or None
    file_out,            \* history: concatenated return values of the read calls
    file_last,           \* history: the last DecryptorFile call and its outcome
    file_read_all,       \* history: read() without a size has been called
    file_raised          \* history: a Decryptor call made by a read has raised

encvars == <<plain, ppos, enc_rsa_public_key, enc_cipher, enc_authenticator,
             enc_rand, enc_split, enc_in, enc_out, enc_last, enc_inits, enc_finalized>>

decvars == <<wire, tampered, wpos, dec_rsa_private_key, dec_cipher, dec_authenticator,
             dec_buf, dec_out, dec_cipher_in, dec_last, dec_finalize_calls,
             dec_split, dec_probed, dec_finalized, dec_rejected>>

filevars == <<src_short, buffer, buffer_offset, state, decryptor, source_fp,
              file_out, file_last, file_read_all, file_raised>>

vars == <<phase, encvars, decvars, filevars>>

Plain(seed) == [i \in 1..MaxPlain |-> (seed * 101 + i * 29) % 256]

NoCall == [op |-> "none", err |-> "", ret |-> <<>>, arg |-> <<>>, fresh |-> FALSE]

EncSelf ==
    [cipher |-> enc_cipher, authenticator |-> enc_authenticator,
     rsa_public_key |-> enc_rsa_public_key]

DecSelf ==
    [cipher |-> dec_cipher, authenticator |-> dec_authenticator, buf |-> dec_buf,
     rsa_private_key |-> dec_rsa_private_key]

NoFileCall ==
    [op |-> "none", size |-> 0, ret |-> <<>>, err |-> "", was |-> "OPEN",
     pulled |-> FALSE, empty |-> FALSE]

\* no DecryptorFile has been constructed
FileUnopened ==
    /\ src_short = <<>>
    /\ buffer = <<>>
    /\ buffer_offset = 0
    /\ state = "OPEN"
    /\ decryptor = None
    /\ source_fp = None
    /\ file_out = <<>>
    /\ file_last = NoFileCall
    /\ file_read_all = FALSE
    /\ file_raised = FALSE

\* Encryptor.__init__, Decryptor.__init__ and the harness
Init ==
    /\ phase = "encrypt"
    /\ plain \in {Plain(seed) : seed \in PlainSeeds}
    /\ ppos = 0
    /\ enc_rsa_public_key \in KeyIds
    /\ enc_cipher = None
    /\ enc_authenticator = None
    /\ enc_rand = 0
    /\ enc_split = FALSE
    /\ enc_in = <<>>
    /\ enc_out = <<>>
    /\ enc_last = NoCall
    /\ enc_inits = 0
    /\ enc_finalized = FALSE
    /\ wire = <<>>
    /\ tampered = 0
    /\ wpos = 0
    /\ dec_rsa_private_key = enc_rsa_public_key
    /\ dec_cipher = None
    /\ dec_authenticator = None
    /\ dec_buf = <<>>
    /\ dec_out = <<>>
    /\ dec_cipher_in = <<>>
    /\ dec_last = [op |-> "none", err |-> ""]
    /\ dec_finalize_calls = 0
    /\ dec_split = FALSE
    /\ dec_probed = FALSE
    /\ dec_finalized = FALSE
    /\ dec_rejected = FALSE
    /\ FileUnopened

\* the harness offers the source from its start to every stream
EncPos == IF enc_cipher = None THEN 0 ELSE ppos

EncChunkSizes == (0..MaxEncChunk) \cup {Len(plain) - EncPos}

\* a call of Encryptor.update with the next k bytes of the source
EncUpdate ==
    /\ phase = "encrypt"
    /\ enc_cipher = None => enc_inits < MaxStreams
    /\ \E k \in EncChunkSizes :
       \E r \in IF enc_cipher = None THEN RandomSeeds ELSE {0} :
        /\ EncPos + k <= Len(plain)
        /\ \E data \in {SubSeq(plain, EncPos + 1, EncPos + k)} :
           \E res \in {EncryptorUpdate(EncSelf, data, r)} :
            /\ ppos' = EncPos + k
            /\ enc_cipher' = res.cipher
            /\ enc_authenticator' = res.authenticator
            /\ enc_rand' = IF res.fresh THEN r ELSE enc_rand
            /\ enc_split' = ~res.fresh
            /\ enc_in' = IF res.fresh THEN data ELSE enc_in \o data
            /\ enc_out' = IF res.fresh THEN res.ret ELSE enc_out \o res.ret
            /\ enc_inits' = IF res.fresh THEN enc_inits + 1 ELSE enc_inits
            /\ enc_last' = [op |-> "update", err |-> res.err, ret |-> res.ret,
                            arg |-> data, fresh |-> res.fresh]
    /\ UNCHANGED <<phase, plain, enc_rsa_public_key, enc_finalized, decvars, filevars>>

\* a call of Encryptor.finalize
EncFinalize ==
    /\ phase = "encrypt"
    /\ \E res \in {EncryptorFinalize(EncSelf)} :
           /\ enc_cipher' = res.cipher
           /\ enc_authenticator' = res.authenticator
           /\ enc_out' = IF res.err = "" THEN enc_out \o res.ret ELSE enc_out
           /\ enc_finalized' = (enc_finalized \/ res.err = "")
           /\ enc_last' = [op |-> "finalize", err |-> res.err, ret |-> res.ret,
                           arg |-> <<>>, fresh |-> FALSE]
    /\ UNCHANGED <<phase, plain, ppos, enc_rsa_public_key, enc_rand, enc_split, enc_in,
                   enc_inits, decvars, filevars>>

\* the first stream of the Encryptor is complete
EncStreamDone ==
    enc_inits = 1 /\ enc_last.op = "finalize" /\ enc_last.err = ""

\* the harness hands the complete stream to the Decryptor unchanged
Transmit ==
    /\ phase = "encrypt"
    /\ EncStreamDone
    /\ phase' = "decrypt"
    /\ wire' = enc_out
    /\ tampered' = 0
    /\ UNCHANGED <<encvars, wpos, dec_rsa_private_key, dec_cipher, dec_authenticator,
                   dec_buf, dec_out, dec_cipher_in, dec_last, dec_finalize_calls,
                   dec_split, dec_probed, dec_finalized, dec_rejected, filevars>>

\* the streams whose single-byte corruptions the harness tries
TamperLens == {0, 1, MaxPlain}

\* the harness hands the stream over with one byte changed
TransmitTampered ==
    /\ phase = "encrypt"
    /\ EncStreamDone
    /\ Len(enc_in) \in TamperLens
    /\ \E i \in 1..Len(enc_out), d \in TamperDeltas :
        /\ wire' = [enc_out EXCEPT ![i] = (@ + d) % 256]
        /\ tampered' = i
    /\ phase' = "decrypt"
    /\ UNCHANGED <<encvars, wpos, dec_rsa_private_key, dec_cipher, dec_authenticator,
                   dec_buf, dec_out, dec_cipher_in, dec_last, dec_finalize_calls,
                   dec_split, dec_probed, dec_finalized, dec_rejected, filevars>>

\* the errors Decryptor.update raises while it reads the header
HeaderErrors == {"Invalid magic bytes", "Decrypting key data failed", "Integrity check failed"}

\* once finalize has returned the harness offers the wire from its start again
DecPos == IF dec_finalized THEN 0 ELSE wpos

\* the harness hands over a stream whose header was damaged: one of its bytes
\* changed, or a message of another length wrapped in place of the secret
TransmitBadHeader ==
    /\ phase = "encrypt"
    /\ EncStreamDone
    /\ Len(enc_in) \in TamperLens
    /\ \/ \E i \in 1..(Len(FILEMAGIC) + LENFIELD + RsaModulusLen), d \in TamperDeltas :
            /\ wire' = [enc_out EXCEPT ![i] = (@ + d) % 256]
            /\ tampered' = i
       \/ /\ wire' = EncryptorHeader(RsaEncrypt(enc_rsa_public_key, ShortMessage))
                        \o SliceFrom(enc_out, Len(FILEMAGIC) + LENFIELD + RsaModulusLen)
          /\ tampered' = Len(FILEMAGIC) + LENFIELD + 1
    /\ phase' = "decrypt"
    /\ UNCHANGED <<encvars, wpos, dec_rsa_private_key, dec_cipher, dec_authenticator,
                   dec_buf, dec_out, dec_cipher_in, dec_last, dec_finalize_calls,
                   dec_split, dec_probed, dec_finalized, dec_rejected, filevars>>

DecChunkSizes == (0..MaxDecChunk) \cup {Len(wire) - DecPos}

\* after the first finalize call the harness makes one more call
CallAllowed == ~dec_probed

\* a call of Decryptor.update with the next k bytes of the wire
DecUpdate ==
    /\ phase = "decrypt"
    /\ CallAllowed
    /\ \E k \in DecChunkSizes :
        /\ DecPos + k <= Len(wire)
        /\ \E res \in {DecryptorUpdate(DecSelf, SubSeq(wire, DecPos + 1, DecPos + k))} :
            /\ wpos' = DecPos + k
            /\ dec_cipher' = res.cipher
            /\ dec_authenticator' = res.authenticator
            /\ dec_buf' = res.buf
            /\ dec_out' = dec_out \o res.ret
            /\ dec_cipher_in' = dec_cipher_in \o res.fed
            /\ dec_last' = [op |-> "update", err |-> res.err]
            /\ dec_rejected' = (dec_rejected \/ res.err \in HeaderErrors)
    /\ dec_split' = (dec_last.op # "none")
    /\ dec_probed' = (dec_finalize_calls > 0)
    /\ UNCHANGED <<phase, encvars, wire, tampered, dec_rsa_private_key, dec_finalize_calls,
                   dec_finalized, filevars>>

\* a call of Decryptor.finalize
DecFinalize ==
    /\ phase = "decrypt"
    /\ CallAllowed
    /\ \E res \in {DecryptorFinalize(DecSelf)} :
        /\ dec_cipher' = res.cipher
        /\ dec_authenticator' = res.authenticator
        /\ dec_buf' = res.buf
        /\ dec_out' = dec_out \o res.ret
        /\ dec_last' = [op |-> "finalize", err |-> res.err]
        /\ dec_finalized' = (dec_finalized \/ res.err = "")
    /\ dec_finalize_calls' = dec_finalize_calls + 1
    /\ dec_probed' = (dec_finalize_calls > 0)
    /\ UNCHANGED <<phase, encvars, wire, tampered, wpos, dec_rsa_private_key,
                   dec_cipher_in, dec_split, dec_rejected, filevars>>

(* ---------------------------- DecryptorFile --------------------------- *)

\* self.source_fp.read(n) at position pos: at most n bytes, at most what the
\* upstream hands out at that position, nothing only at the end of the wire
SourceRead(pos, n) ==
    SubSeq(wire, pos + 1,
           pos + Min(n, Min(Len(wire) - pos, src_short[(pos % Len(src_short)) + 1])))

\* data = self.decryptor.update(data); if data: blocks.append(data)
LoopUpdate(st, data) ==
    LET res == DecryptorUpdate(st, data)
    IN  [st EXCEPT !.cipher = res.cipher, !.authenticator = res.authenticator,
                   !.buf = res.buf, !.pos = @ + Len(data), !.reads = @ + 1,
                   !.blocks = @ \o res.ret, !.err = res.err,
                   !.out = @ \o res.ret, !.fed = @ \o res.fed,
                   !.last = [op |-> "update", err |-> res.err],
                   !.split = (st.last.op # "none"),
                   !.rejected = (@ \/ res.err \in HeaderErrors),
                   !.raised = (@ \/ res.err # "")]

\* data = self.decryptor.finalize(); if data: blocks.append(data)
LoopFinalize(st) ==
    LET res == DecryptorFinalize(st)
    IN  [st EXCEPT !.cipher = res.cipher, !.authenticator = res.authenticator,
                   !.buf = res.buf, !.blocks = @ \o res.ret, !.err = res.err,
                   !.out = @ \o res.ret,
                   !.last = [op |-> "finalize", err |-> res.err],
                   !.finalizes = @ + 1,
                   !.finalized = (@ \/ res.err = ""),
                   !.raised = (@ \/ res.err # "")]

\* the loop of DecryptorFile._read_all; an exception leaves it with st.err set
RECURSIVE ReadAllLoop(_)
ReadAllLoop(st) ==
    LET data == SourceRead(st.pos, IO_BLOCK_SIZE)
    IN  IF data = <<>>
        THEN [st EXCEPT !.state = "EOF", !.reads = @ + 1, !.empty = TRUE]
        ELSE LET upd == LoopUpdate(st, data)
             IN  IF upd.err # "" THEN upd ELSE ReadAllLoop(upd)

\* DecryptorFile._read_all()
DecryptorFileReadAll(self) ==
    LET start == IF self.buffer_offset > 0
                 THEN [self EXCEPT !.blocks = self.buffer, !.buffer = <<>>,
                                   !.buffer_offset = 0]
                 ELSE self
        st == ReadAllLoop(start)
        fin == LoopFinalize(st)
    IN  IF st.err # "" THEN st
        ELSE IF fin.err # "" THEN fin
        ELSE [fin EXCEPT !.ret = fin.blocks]

\* mutant: the upstream is asked once, whatever it returns
ReadBlockOnce(st, size) ==
    LET data == SourceRead(st.pos, IO_BLOCK_SIZE)
    IN  IF data = <<>>
        THEN LET fin == LoopFinalize([st EXCEPT !.state = "EOF", !.reads = @ + 1,
                                                !.empty = TRUE])
             IN  [fin EXCEPT !.readylen = @ + Len(fin.blocks) - Len(st.blocks)]
        ELSE LET upd == LoopUpdate(st, data)
             IN  [upd EXCEPT !.readylen = @ + Len(upd.blocks) - Len(st.blocks)]

\* the loop of DecryptorFile._read_block; an exception leaves it with st.err set
RECURSIVE ReadBlockLoop(_, _)
ReadBlockLoop(st, size) ==
    IF ~(st.readylen < size) THEN st
    ELSE LET data == SourceRead(st.pos, IO_BLOCK_SIZE)
         IN  IF data = <<>>
             THEN LET fin == LoopFinalize([st EXCEPT !.state = "EOF", !.reads = @ + 1,
                                                     !.empty = TRUE])
                  IN  [fin EXCEPT !.readylen = @ + Len(fin.blocks) - Len(st.blocks)]
             ELSE LET upd == LoopUpdate(st, data)
                  IN  IF upd.err # "" THEN upd
                      ELSE ReadBlockLoop(
                               [upd EXCEPT !.readylen = @ + Len(upd.blocks) - Len(st.blocks)],
                               size)

\* mutant: what was decrypted beyond size is not kept
DecryptorFileReadBlockDropSurplus(self, size) ==
    LET readylen == Len(self.buffer) - self.buffer_offset
        blocks == IF self.buffer_offset # 0
                  THEN SliceFrom(self.buffer, self.buffer_offset)
                  ELSE self.buffer
        st == ReadBlockLoop([self EXCEPT !.blocks = blocks, !.readylen = readylen], size)
    IN  IF size <= readylen
        THEN [self EXCEPT !.ret = Slice(self.buffer, self.buffer_offset,
                                        self.buffer_offset + size),
                          !.buffer_offset = @ + size]
        ELSE IF st.err # "" THEN st
        ELSE [st EXCEPT !.buffer = <<>>, !.buffer_offset = 0,
                        !.ret = Slice(st.blocks, 0, size)]

\* mutant: the offset is not reset when the buffer is rebuilt
DecryptorFileReadBlockNoReset(self, size) ==
    LET readylen == Len(self.buffer) - self.buffer_offset
        blocks == IF self.buffer_offset # 0
                  THEN SliceFrom(self.buffer, self.buffer_offset)
                  ELSE self.buffer
        st == ReadBlockLoop([self EXCEPT !.blocks = blocks, !.readylen = readylen], size)
    IN  IF size <= readylen
        THEN [self EXCEPT !.ret = Slice(self.buffer, self.buffer_offset,
                                        self.buffer_offset + size),
                          !.buffer_offset = @ + size]
        ELSE IF st.err # "" THEN st
        ELSE IF size < st.readylen
        THEN [st EXCEPT !.buffer = st.blocks, !.buffer_offset = @ + size,
                        !.ret = Slice(st.blocks, 0, size)]
        ELSE [st EXCEPT !.buffer = <<>>, !.buffer_offset = 0, !.ret = st.blocks]

\* DecryptorFile._read_block(size)
DecryptorFileReadBlock(self, size) ==
    LET readylen == Len(self.buffer) - self.buffer_offset
        blocks == IF self.buffer_offset # 0
                  THEN SliceFrom(self.buffer, self.buffer_offset)
                  ELSE self.buffer
        st == ReadBlockLoop([self EXCEPT !.blocks = blocks, !.readylen = readylen], size)
    IN  IF size <= readylen
        THEN [self EXCEPT !.ret = Slice(self.buffer, self.buffer_offset,
                                        self.buffer_offset + size),
                          !.buffer_offset = @ + size]
        ELSE IF st.err # "" THEN st
        ELSE IF size < st.readylen
        THEN [st EXCEPT !.buffer = st.blocks, !.buffer_offset = size,
                        !.ret = Slice(st.blocks, 0, size)]
        ELSE [st EXCEPT !.buffer = <<>>, !.buffer_offset = 0, !.ret = st.blocks]

\* mutant: no method checks for a closed stream
CheckNothing(self) == ""

\* DecryptorFile._check_not_closed()
CheckNotClosed(self) == IF self.state = "CLOSED" THEN "ValueError" ELSE ""

\* mutant: read does not look at the EOF state
DecryptorFileReadIgnoreEof(self, size) ==
    IF CheckNotClosed(self) # "" THEN [self EXCEPT !.err = CheckNotClosed(self)]
    ELSE IF size = 0 THEN self
    ELSE IF size < 0 THEN DecryptorFileReadAll(self)
    ELSE DecryptorFileReadBlock(self, size)

\* DecryptorFile.read(size) and read1(size); size -1 is the default
DecryptorFileRead(self, size) ==
    IF CheckNotClosed(self) # "" THEN [self EXCEPT !.err = CheckNotClosed(self)]
    ELSE IF self.state = "EOF" \/ size = 0 THEN self
    ELSE IF size < 0 THEN DecryptorFileReadAll(self)
    ELSE DecryptorFileReadBlock(self, size)

\* DecryptorFile.close()
DecryptorFileClose(self) ==
    IF self.state = "CLOSED" THEN self
    ELSE [self EXCEPT !.decryptor = None, !.source_fp = None, !.state = "CLOSED"]

\* the methods of DecryptorFile that neither read nor close
Queries ==
    {"peek", "flush", "fileno", "readable", "seekable", "writable", "seek", "tell",
     "truncate"}

\* peek, flush, fileno, readable, seekable, writable, seek, tell, truncate:
\* the exception raised, whether the upstream handle was used, the value
DecryptorFileQuery(self, op) ==
    IF CheckNotClosed(self) # ""
    THEN [err |-> CheckNotClosed(self), upstream |-> FALSE, value |-> "none"]
    ELSE IF op \in {"seek", "tell", "truncate"}
    THEN [err |-> "OSError", upstream |-> FALSE, value |-> "none"]
    ELSE [err |-> "", upstream |-> (op = "fileno"),
          value |-> CASE op = "peek" -> "b''"
                      [] op = "flush" -> "None"
                      [] op = "fileno" -> "source_fp.fileno()"
                      [] op = "readable" ->
                            IF self.state \in {"OPEN", "EOF"} THEN "True" ELSE "False"
                      [] OTHER -> "False"]

\* the DecryptorFile, its Decryptor and its upstream as one record, with the
\* locals and the bookkeeping of one call
FileSelf ==
    [buffer |-> buffer, buffer_offset |-> buffer_offset, state |-> state,
     decryptor |-> decryptor, source_fp |-> source_fp,
     cipher |-> dec_cipher, authenticator |-> dec_authenticator, buf |-> dec_buf,
     rsa_private_key |-> dec_rsa_private_key, pos |-> wpos,
     blocks |-> <<>>, readylen |-> 0, ret |-> <<>>, err |-> "",
     out |-> <<>>, fed |-> <<>>, last |-> dec_last, split |-> dec_split,
     finalizes |-> 0, finalized |-> dec_finalized, rejected |-> dec_rejected,
     reads |-> 0, empty |-> FALSE, raised |-> file_raised]

\* update(data) then finalize() on a fresh Encryptor with key k drawing r
StreamOf(k, data, r) ==
    LET fresh == [cipher |-> None, authenticator |-> None, rsa_public_key |-> k]
        upd == EncryptorUpdate(fresh, data, r)
    IN  upd.ret \o EncryptorFinalize([cipher |-> upd.cipher,
                                      authenticator |-> upd.authenticator,
                                      rsa_public_key |-> k]).ret

\* plaintext source and os.urandom outcome of the streams offered to a
\* DecryptorFile
FileSeeds == {<<0, 1>>, <<1, 2>>}

\* plaintext lengths of the streams offered to a DecryptorFile
FileLens == {0, 1, MaxFilePlain}

\* where the harness changes a byte of such a stream: the magic, the first
\* byte after the header, the last byte of the tag
FileTamperAt(out) == {1, Len(FILEMAGIC) + LENFIELD + RsaModulusLen + 1, Len(out)}

\* how the upstream hands out its bytes: one at a time, one and three in
\* turn, seven at a time, or as many as asked for
SrcShort == {<<1>>, <<1, 3>>, <<7>>, <<IO_BLOCK_SIZE>>}

\* sizes passed to DecryptorFile.read; -1 is read()
ReadSizes == {-1} \cup (0..MaxReadSize)

\* DecryptorFile.__init__ over a stream written by an Encryptor, intact or
\* with one byte changed
FileInit ==
    \E sr \in FileSeeds, k \in KeyIds, n \in FileLens :
     \E seed \in {sr[1]}, r \in {sr[2]}, data \in {SubSeq(Plain(sr[1]), 1, n)} :
      \E out \in {StreamOf(k, data, r)} :
        /\ phase = "file"
        /\ plain = Plain(seed)
        /\ ppos = n
        /\ enc_rsa_public_key = k
        /\ enc_cipher = None
        /\ enc_authenticator = None
        /\ enc_rand = r
        /\ enc_split = FALSE
        /\ enc_in = data
        /\ enc_out = out
        /\ enc_last = [op |-> "finalize", err |-> "", ret |-> LastN(out, TAGLEN),
                       arg |-> <<>>, fresh |-> FALSE]
        /\ enc_inits = 1
        /\ enc_finalized = TRUE
        /\ \/ wire = out /\ tampered = 0
           \/ \E i \in FileTamperAt(out), d \in TamperDeltas :
                wire = [out EXCEPT ![i] = (@ + d) % 256] /\ tampered = i
        /\ wpos = 0
        /\ dec_rsa_private_key = k
        /\ dec_cipher = None
        /\ dec_authenticator = None
        /\ dec_buf = <<>>
        /\ dec_out = <<>>
        /\ dec_cipher_in = <<>>
        /\ dec_last = [op |-> "none", err |-> ""]
        /\ dec_finalize_calls = 0
        /\ dec_split = FALSE
        /\ dec_probed = FALSE
        /\ dec_finalized = FALSE
        /\ dec_rejected = FALSE
        /\ src_short \in SrcShort
        /\ buffer = <<>>
        /\ buffer_offset = 0
        /\ state = "OPEN"
        /\ decryptor = [tag |-> "Decryptor"]
        /\ source_fp = [tag |-> "fp"]
        /\ file_out = <<>>
        /\ file_last = NoFileCall
        /\ file_read_all = FALSE
        /\ file_raised = FALSE

\* a call of DecryptorFile.read or read1
FileRead ==
    /\ phase = "file"
    /\ \E op \in {"read", "read1"}, size \in ReadSizes :
       \E res \in {DecryptorFileRead(FileSelf, size)} :
        /\ buffer' = res.buffer
        /\ buffer_offset' = res.buffer_offset
        /\ state' = res.state
        /\ wpos' = res.pos
        /\ dec_cipher' = res.cipher
        /\ dec_authenticator' = res.authenticator
        /\ dec_buf' = res.buf
        /\ dec_out' = dec_out \o res.out
        /\ dec_cipher_in' = dec_cipher_in \o res.fed
        /\ dec_last' = res.last
        /\ dec_finalize_calls' = dec_finalize_calls + res.finalizes
        /\ dec_split' = res.split
        /\ dec_finalized' = res.finalized
        /\ dec_rejected' = res.rejected
        /\ file_out' = file_out \o res.ret
        /\ file_last' = [op |-> op, size |-> size, ret |-> res.ret, err |-> res.err,
                         was |-> state, pulled |-> res.reads > 0, empty |-> res.empty]
        /\ file_read_all' = (file_read_all \/ size < 0)
        /\ file_raised' = res.raised
    /\ UNCHANGED <<phase, encvars, wire, tampered, dec_rsa_private_key, dec_probed,
                   src_short, decryptor, source_fp>>

\* a call of one of peek, flush, fileno, readable, seekable, writable, seek,
\* tell, truncate
FileQuery ==
    /\ phase = "file"
    /\ \E op \in Queries :
       \E res \in {DecryptorFileQuery(FileSelf, op)} :
        file_last' = [op |-> op, size |-> 0, ret |-> <<>>, err |-> res.err,
                      was |-> state, pulled |-> res.upstream, empty |-> FALSE]
    /\ UNCHANGED <<phase, encvars, decvars, src_short, buffer, buffer_offset, state,
                   decryptor, source_fp, file_out, file_read_all, file_raised>>

\* a call of DecryptorFile.close
FileClose ==
    /\ phase = "file"
    /\ \E res \in {DecryptorFileClose(FileSelf)} :
        /\ state' = res.state
        /\ decryptor' = res.decryptor
        /\ source_fp' = res.source_fp
        /\ file_last' = [op |-> "close", size |-> 0, ret |-> <<>>, err |-> "",
                         was |-> state, pulled |-> FALSE, empty |-> FALSE]
    /\ UNCHANGED <<phase, encvars, decvars, src_short, buffer, buffer_offset,
                   file_out, file_read_all, file_raised>>

EncNext == EncUpdate \/ EncFinalize

FileNext == FileRead \/ FileQuery \/ FileClose

Next == EncUpdate \/ EncFinalize \/ Transmit \/ DecUpdate \/ DecFinalize

TamperNext == Next \/ TransmitTampered

RejectNext == Next \/ TransmitBadHeader

\* the Encryptor alone
SpecEnc == Init /\ [][EncNext]_vars

\* an Encryptor stream delivered intact to a Decryptor
Spec == Init /\ [][Next]_vars

\* the same, over a channel that may change one byte
SpecTamper == Init /\ [][TamperNext]_vars

\* the same, over a channel that may damage the header
SpecReject == Init /\ [][RejectNext]_vars

\* a DecryptorFile over a stream written by an Encryptor, intact or damaged
SpecFile == FileInit /\ [][FileNext]_vars

(* ------------------------------- claims ------------------------------- *)

\* length of the header of the stream the Encryptor produced
StreamHdr == 8 + 256 * enc_out[7] + enc_out[8]

\* length of the ciphertext body of that stream
StreamBody == Len(enc_out) - StreamHdr - 32

\* post-header bytes the Decryptor has received
PostHeader == IF wpos > StreamHdr THEN wpos - StreamHdr ELSE 0

\* the intact stream was handed over and only update has been called so far
Streaming == phase = "decrypt" /\ tampered = 0 /\ dec_finalize_calls = 0

\* the whole intact stream was delivered and then finalize was called, once
Delivered ==
    /\ phase = "decrypt" /\ tampered = 0 /\ wpos = Len(wire)
    /\ dec_last.op = "finalize" /\ dec_finalize_calls = 1

\* C1: round trip. Whatever the chunking on either side, once the whole
\* stream of an Encryptor has been fed to a Decryptor with the matching key
\* and finalize is called, finalize raises nothing and the concatenated
\* Decryptor output is the plaintext.
C1_RoundTrip == Delivered => (dec_last.err = "" /\ dec_out = enc_in)

C1_Witness ==
    /\ Delivered /\ enc_split /\ dec_split
    /\ Len(enc_in) = MaxPlain /\ dec_out = enc_in /\ dec_last.err = ""

\* C2: lookback-32. While only update has been called on an active Decryptor
\* fed a prefix of a valid stream, with n post-header bytes received the
\* buffer is the last min(32, n) of them, the cipher and the authenticator
\* have been fed the n - min(32, n) bytes before those, and what the cipher
\* was fed lies inside the ciphertext body.
C2_Lookback ==
    (Streaming /\ dec_cipher.tag = "ctr") =>
        LET n == wpos - StreamHdr
            m == IF n < 32 THEN n ELSE 32
        IN  /\ n >= 0
            /\ dec_buf = SubSeq(wire, wpos - m + 1, wpos)
            /\ dec_cipher_in = SubSeq(wire, StreamHdr + 1, wpos - m)
            /\ dec_authenticator.data = dec_cipher_in
            /\ dec_cipher.pos = n - m
            /\ n - m <= StreamBody

C2_Witness ==
    /\ Streaming /\ dec_cipher.tag = "ctr" /\ dec_split
    /\ wpos - StreamHdr > 32 /\ wpos < Len(wire)
    /\ Len(dec_buf) = 32 /\ Len(dec_cipher_in) = wpos - StreamHdr - 32

\* ciphertext bytes received whose plaintext update has not yet returned
Stuck == (IF PostHeader < StreamBody THEN PostHeader ELSE StreamBody) - Len(dec_out)

\* C3 as stated: before the last byte of a valid stream is delivered at most
\* 31 ciphertext bytes are received but not yet returned.
C3_AtMost31 == (Streaming /\ wpos < Len(wire)) => Stuck <= 31

\* C3 amended: before the last byte of a valid stream is delivered at most 32
\* ciphertext bytes are received but not yet returned.
C3_AtMost32 == (Streaming /\ wpos < Len(wire)) => Stuck <= 32

C3_Witness == Streaming /\ wpos < Len(wire) /\ Stuck = 32 /\ dec_out # <<>>

\* C4: tamper detection. If one byte after the header of a valid stream was
\* changed in transit, every call of Decryptor.finalize raises.
C4_TamperDetected ==
    (phase = "decrypt" /\ tampered > StreamHdr /\ dec_last.op = "finalize")
        => dec_last.err # ""

C4_Witness ==
    /\ phase = "decrypt" /\ tampered > StreamHdr /\ tampered <= StreamHdr + StreamBody
    /\ wpos = Len(wire) /\ dec_finalize_calls = 1 /\ dec_last.op = "finalize"
    /\ dec_last.err = "Integrity check failed" /\ Len(dec_out) = StreamBody

\* C5: truncation. finalize called after fewer bytes than a complete header
\* plus 32 raises and no Decryptor call has returned a byte.
C5_Truncation ==
    (phase = "decrypt" /\ tampered = 0 /\ dec_last.op = "finalize"
        /\ wpos < StreamHdr + 32)
        => (dec_last.err # "" /\ dec_out = <<>>)

C5_Witness ==
    /\ phase = "decrypt" /\ tampered = 0 /\ dec_last.op = "finalize"
    /\ wpos = StreamHdr /\ dec_cipher.tag = "ctr"
    /\ dec_last.err = "Integrity check failed" /\ dec_out = <<>>

\* the Decryptor as constructed
DecFresh ==
    [cipher |-> None, authenticator |-> None, buf |-> <<>>,
     rsa_private_key |-> dec_rsa_private_key]

\* the whole wire delivered in one update call
OneShotUpdate == DecryptorUpdate(DecFresh, wire)

OneShotFinalize ==
    DecryptorFinalize([cipher |-> OneShotUpdate.cipher,
                       authenticator |-> OneShotUpdate.authenticator,
                       buf |-> OneShotUpdate.buf,
                       rsa_private_key |-> dec_rsa_private_key])

\* C6: Decryptor chunking invariance. However a valid stream is split into
\* update calls, after the last of them the Decryptor is in the state, and
\* has returned the bytes, of a single update with the whole stream, and
\* finalize then returns the same.
C6_DecChunking ==
    /\ (Streaming /\ wpos = Len(wire)) =>
            /\ dec_out = OneShotUpdate.ret
            /\ dec_cipher = OneShotUpdate.cipher
            /\ dec_authenticator = OneShotUpdate.authenticator
            /\ dec_buf = OneShotUpdate.buf
    /\ Delivered =>
            /\ dec_out = OneShotUpdate.ret \o OneShotFinalize.ret
            /\ dec_last.err = OneShotFinalize.err

C6_Witness ==
    /\ Delivered /\ dec_split /\ dec_last.err = ""
    /\ Len(dec_out) = MaxPlain
    /\ dec_out = OneShotUpdate.ret \o OneShotFinalize.ret

\* an Encryptor stream is complete
EncDone == enc_last.op = "finalize" /\ enc_last.err = ""

\* the Encryptor as constructed
EncFresh ==
    [cipher |-> None, authenticator |-> None, rsa_public_key |-> enc_rsa_public_key]

\* update(P) followed by finalize on a fresh Encryptor drawing the same secret
OneShotEncUpdate == EncryptorUpdate(EncFresh, enc_in, enc_rand)

OneShotEncrypt ==
    OneShotEncUpdate.ret
        \o EncryptorFinalize([cipher |-> OneShotEncUpdate.cipher,
                              authenticator |-> OneShotEncUpdate.authenticator,
                              rsa_public_key |-> enc_rsa_public_key]).ret

\* C7: Encryptor chunking invariance. With the secret fixed, the output of
\* a stream fed in any chunks is the output of update(P) then finalize.
C7_EncChunking == EncDone => enc_out = OneShotEncrypt

C7_Witness ==
    EncDone /\ enc_split /\ Len(enc_in) = MaxPlain /\ enc_out = OneShotEncrypt

\* C8: framing. A complete stream is magic, big-endian L, L bytes of wrapped
\* key, as many ciphertext bytes as plaintext bytes, 32 bytes of tag; the
\* update that starts a stream returns header and ciphertext, every other
\* update returns exactly as many bytes as it was given.
C8_Framing ==
    /\ EncDone =>
        LET L == 256 * enc_out[7] + enc_out[8]
            secret == Secret(enc_rand)
            body == SubSeq(enc_out, 8 + L + 1, 8 + L + Len(enc_in))
        IN  /\ SubSeq(enc_out, 1, 6) = <<112, 103, 104, 111, 97, 49>>
            /\ L = RsaModulusLen
            /\ enc_out[7] = 0 /\ enc_out[8] = RsaModulusLen
            /\ SubSeq(enc_out, 9, 8 + L) = RsaEncrypt(enc_rsa_public_key, secret)
            /\ Len(enc_out) = 6 + 2 + L + Len(enc_in) + 32
            /\ \A i \in 1..Len(enc_in) :
                body[i] = Xor(enc_in[i], Keystream(SubSeq(secret, 1, 16),
                                                   SubSeq(secret, 17, 32), i - 1))
            /\ SubSeq(enc_out, Len(enc_out) - 31, Len(enc_out))
                    = HmacDigest(SubSeq(secret, 33, 64), body)
    /\ (enc_last.op = "update" /\ enc_last.fresh) =>
            /\ Len(enc_last.ret) = 6 + 2 + RsaModulusLen + Len(enc_last.arg)
            /\ SubSeq(enc_last.ret, 1, 6) = <<112, 103, 104, 111, 97, 49>>
            /\ enc_out = enc_last.ret
    /\ (enc_last.op = "update" /\ ~enc_last.fresh) =>
            /\ Len(enc_last.ret) = Len(enc_last.arg)
            /\ enc_last.ret = SubSeq(enc_out, 8 + RsaModulusLen + Len(enc_in)
                                                - Len(enc_last.arg) + 1, Len(enc_out))

C8_Witness ==
    /\ EncDone /\ enc_split /\ Len(enc_in) = MaxPlain
    /\ Len(enc_out) = 8 + RsaModulusLen + MaxPlain + 32

C10_NoUpdateAfterFinalize ==
    /\ (enc_finalized /\ enc_last.op = "update") => enc_last.err = "Invalid state"
    /\ enc_inits <= 1

\* C11 as stated: once Decryptor.finalize has returned, every later call of
\* update, whatever the chunk, and of finalize raises invalid-state.
C11_DeadAfterFinalize ==
    (phase = "decrypt" /\ dec_finalized /\ dec_probed) => dec_last.err = "Invalid state"

\* C19: header rejection is permanent. Once Decryptor.update has raised for
\* bad magic, a failed unwrap or a secret that is not 64 bytes, the instance
\* stays uninitialised, every later update raises the header error again,
\* finalize raises invalid-state and no call has returned a byte.
C19_RejectionPermanent ==
    (phase = "decrypt" /\ dec_rejected) =>
        /\ dec_cipher = None
        /\ dec_authenticator = None
        /\ dec_out = <<>>
        /\ dec_last.op = "update" => dec_last.err \in HeaderErrors
        /\ dec_last.op = "finalize" => dec_last.err = "Invalid state"

C19_Witness ==
    /\ phase = "decrypt" /\ dec_rejected /\ dec_split
    /\ dec_finalize_calls = 1 /\ dec_probed
    /\ dec_last.op = "update" /\ dec_last.err = "Integrity check failed"
    /\ wpos = Len(wire) /\ dec_out = <<>>

(* ------------------------ claims on DecryptorFile --------------------- *)

IsPrefix(a, b) == Len(a) <= Len(b) /\ a = SubSeq(b, 1, Len(a))

Reads == {"read", "read1"}

\* the stream under the DecryptorFile is as the Encryptor wrote it
ValidSource == phase = "file" /\ tampered = 0

\* self.buffer[self.buffer_offset:], the lookahead not yet handed out
Unread == SliceFrom(buffer, buffer_offset)

\* C12: read(N) with N >= 0 on an open stream over a valid source returns
\* exactly min(N, R) bytes, R being the plaintext bytes not yet delivered;
\* they are the next bytes of the plaintext in order, and what was decrypted
\* beyond them is kept for the next call.
C12_ReadReturnsMin ==
    (ValidSource /\ file_last.op \in Reads /\ file_last.size >= 0
        /\ file_last.was = "OPEN") =>
        LET before == Len(file_out) - Len(file_last.ret)
            R == Len(enc_in) - before
        IN  /\ file_last.err = ""
            /\ Len(file_last.ret) = Min(file_last.size, R)
            /\ file_last.ret = SubSeq(enc_in, before + 1, before + Len(file_last.ret))
            /\ file_out = SubSeq(enc_in, 1, Len(file_out))
            /\ Unread = SubSeq(dec_out, Len(file_out) + 1, Len(dec_out))
            /\ IsPrefix(dec_out, enc_in)

C12_Witness ==
    /\ ValidSource /\ file_last.op = "read" /\ file_last.was = "OPEN"
    /\ file_last.size = MaxReadSize /\ Len(file_last.ret) = MaxReadSize
    /\ Len(file_out) > MaxReadSize /\ file_last.pulled
    /\ buffer_offset = MaxReadSize /\ Len(buffer) > buffer_offset
    /\ file_last.ret = SubSeq(enc_in, Len(file_out) - MaxReadSize + 1, Len(file_out))

\* a DecryptorFile as constructed over the same upstream
FileFresh ==
    [FileSelf EXCEPT !.buffer = <<>>, !.buffer_offset = 0, !.state = "OPEN",
                     !.cipher = None, !.authenticator = None, !.buf = <<>>, !.pos = 0,
                     !.last = [op |-> "none", err |-> ""], !.split = FALSE,
                     !.finalized = FALSE, !.rejected = FALSE, !.raised = FALSE]

\* a single read() on a fresh stream over the same source
OneShotRead == DecryptorFileReadAll(FileFresh)

\* C13: over a valid source, however the upstream chunks it, while only
\* sized reads have been made: a read(N) with N > 0 returns nothing only by
\* reaching the end, what the reads have returned by then is what a single
\* read() on a fresh stream returns, and every further read returns nothing.
C13_ReadLoop ==
    (ValidSource /\ ~file_read_all) =>
        /\ IsPrefix(file_out, OneShotRead.ret)
        /\ state = "EOF" => (file_out = OneShotRead.ret /\ OneShotRead.err = "")
        /\ (file_last.op \in Reads /\ file_last.size > 0 /\ file_last.err = ""
                /\ file_last.ret = <<>>) => state = "EOF"
        /\ (file_last.op \in Reads /\ file_last.was = "EOF") => file_last.ret = <<>>

C13_Witness ==
    /\ ValidSource /\ ~file_read_all /\ state = "EOF"
    /\ file_last.op = "read" /\ file_last.was = "EOF" /\ file_last.size = MaxReadSize
    /\ file_last.ret = <<>> /\ Len(file_out) = MaxFilePlain
    /\ file_out = OneShotRead.ret /\ Len(src_short) = 2

\* no read has returned byte b; the bytes of one plaintext of the model
\* differ from one another, so a byte stands for its position
NotDelivered(b) == \A i \in 1..Len(file_out) : file_out[i] # b

\* the bytes the Decryptor has produced and no read has returned, in order
Undelivered == SelectSeq(dec_out, NotDelivered)

\* the Decryptor output of the run has no byte twice
DistinctBytes == \A i, j \in 1..Len(dec_out) : dec_out[i] = dec_out[j] => i = j

C15_Close ==
    [][/\ FileClose =>
            /\ state' = "CLOSED" /\ decryptor' = None /\ source_fp' = None
            /\ file_last'.err = ""
            /\ state = "CLOSED" => (decryptor = None /\ source_fp = None)
       /\ (state = "CLOSED" /\ (FileRead \/ FileQuery)) =>
            /\ file_last'.op \in Reads \cup Queries
            /\ file_last'.err = "ValueError"
            /\ ~file_last'.pulled
            /\ file_last'.ret = <<>>
            /\ UNCHANGED <<decvars, buffer, buffer_offset, state, decryptor,
                           source_fp, file_out>>]_vars

C15_Witness ==
    /\ phase = "file" /\ state = "CLOSED" /\ decryptor = None /\ source_fp = None
    /\ file_last.was = "CLOSED" /\ file_last.op = "fileno"
    /\ file_last.err = "ValueError" /\ ~file_last.pulled
    /\ wpos > 0 /\ wpos < Len(wire)

\* C16: the state moves only OPEN -> EOF -> CLOSED or OPEN -> CLOSED; it
\* becomes EOF only in a read to which the upstream returned nothing; in
\* EOF no read pulls from the upstream or returns a byte.
C16_Lifecycle ==
    [][phase = "file" =>
        /\ state = "EOF" => state' \in {"EOF", "CLOSED"}
        /\ state = "CLOSED" => state' = "CLOSED"
        /\ (state # "EOF" /\ state' = "EOF") =>
                /\ state = "OPEN" /\ FileRead
                /\ file_last'.empty /\ wpos' = Len(wire)
        /\ (state = "EOF" /\ FileRead) =>
                /\ ~file_last'.pulled /\ wpos' = wpos
                /\ file_last'.ret = <<>> /\ file_out' = file_out]_vars

C16_Witness ==
    /\ phase = "file" /\ state = "CLOSED" /\ file_last.op = "close"
    /\ file_last.was = "EOF" /\ wpos = Len(wire) /\ Len(file_out) = MaxFilePlain

\* C17 as stated: over a valid source and for every mix of read(N) and
\* read(), what the calls have returned is a prefix of the plaintext, and
\* is the plaintext once EOF is reached.
C17_MixedReads ==
    ValidSource =>
        /\ IsPrefix(file_out, enc_in)
        /\ state = "EOF" => file_out = enc_in

\* C18 as stated: the stream is in EOF only if Decryptor.finalize has
\* returned, and over a source that fails the integrity check no read
\* returns nothing as an ordinary end of stream.
C18_EofIsVerified ==
    phase = "file" =>
        /\ state = "EOF" => dec_finalized
        /\ (tampered # 0 /\ file_last.op \in Reads /\ file_last.size # 0
                /\ file_last.err = "") => file_last.ret # <<>>

\* C20 as stated: in EOF the lookahead holds no unread bytes.
C20_EofBufferEmpty ==
    (phase = "file" /\ state = "EOF") => buffer_offset = Len(buffer)

====
